---- MODULE Spec2Model ----
(***************************************************************************)
(* Read cache with selective invalidation of the storefront backend:       *)
(* the product, user and dashboard controllers, the process-wide cache     *)
(* they share and the document store behind them.                          *)
(*                                                                         *)
(* A request is a slot p of Procs.  Every document-store query is a        *)
(* suspension point: the handler issues it in one step, the store          *)
(* evaluates it in a later step (reading or writing the collections as     *)
(* they are then) and the handler's continuation runs in a third step.     *)
(* Cache operations are synchronous and belong to the step that runs them. *)
(***************************************************************************)
EXTENDS Integers, Sequences, FiniteSets, TLC

\* ------------------------------------------------------------------------
\* Bounds
\* ------------------------------------------------------------------------
MaxReq == 2          \* requests in flight at the same time
MaxStats == 1        \* dashboard requests in flight at the same time
MaxId == 2           \* product ids the store can hand out
MaxUser == 1         \* user ids a client can sign up with

Procs == 1..MaxReq
Ids == 1..MaxId
UserIds == 1..MaxUser
MissingId == 0       \* the _id of no document
Categories == {"a", "b"}
Prices == {1}

VARIABLES
    Product,      \* the product collection: a set of documents
    nextId,       \* the next _id the store generates
    UserModel,    \* the user collection: a set of documents
    Order,        \* the order collection: a set of documents
    clock,        \* the current instant
    nodeCache,    \* the cache: a function from the keys present to JSON text
    pc,           \* pc[p]: where request p stands
    kind,         \* kind[p]: the handler serving request p
    rid,          \* rid[p]: the id the request names (req.params.id, body._id)
    loc,          \* loc[p]: the handler's local, the result of its last query
    res,          \* res[p]: the response of request p
    ev,           \* ev[p]: the store and cache calls request p has made
    healed,       \* the keys invalidated since a read of them last began
    lastRead      \* per key: the last answer to a read since its invalidation

vars == <<Product, nextId, UserModel, Order, clock, nodeCache,
          pc, kind, rid, loc, res, ev, healed, lastRead>>

\* ------------------------------------------------------------------------
\* JSON: JSON.stringify of documents and of parsed values, JSON.parse
\* ------------------------------------------------------------------------
\* A Date leaves JSON.stringify as an ISO string and does not come back.
IsoString(t) == <<"iso", t>>

\* a product document as a plain JSON object (Document.toJSON)
ToJSON(doc) ==
    [_id |-> doc._id, category |-> doc.category, price |-> doc.price,
     createdAt |-> IsoString(doc.createdAt)]

\* JSON.stringify of a plain value: the text that denotes it
Stringify(plain) == [valid |-> TRUE, value |-> plain]

\* JSON.stringify of an array of documents
StringifyDocs(docs) == Stringify([i \in DOMAIN docs |-> ToJSON(docs[i])])

\* JSON null, and the empty object {}
Null == [_id |-> MissingId, category |-> "null", price |-> 0,
         createdAt |-> IsoString(0)]
EmptyObject == [_id |-> MissingId, category |-> "{}", price |-> 0,
                createdAt |-> IsoString(0)]

\* JSON.stringify of a document or null (a failed findById)
StringifyDoc(found) ==
    IF found = {} THEN Stringify(Null)
    ELSE Stringify(ToJSON(CHOOSE d \in found : TRUE))

\* a text that is not JSON
Garbage == [valid |-> FALSE, value |-> <<>>]

\* JSON.parse: the value a text denotes; it throws on any other text
ParseThrows(text) == ~text.valid
Parse(text) == text.value

\* ------------------------------------------------------------------------
\* Cache keys and the cache store (node-cache without expiry)
\* ------------------------------------------------------------------------
ProductKey(id) == "product-" \o ToString(id)
ViewKeys == {"latestProducts", "categories", "admin-products"}
StatsKey == "admin-stats"
ProductKeys == {ProductKey(i) : i \in Ids}
Keys == ViewKeys \cup {StatsKey} \cup ProductKeys

has(c, key) == key \in DOMAIN c
get(c, key) == c[key]
\* a set that keeps the value a key already has
setIfAbsent(c, key, value) ==
    [k \in DOMAIN c \cup {key} |-> IF k \in DOMAIN c THEN c[k] ELSE value]

set(c, key, value) ==
    [k \in DOMAIN c \cup {key} |-> IF k = key THEN value ELSE c[k]]
del(c, keys) == [k \in DOMAIN c \ keys |-> c[k]]
EmptyCache == [k \in {} |-> Garbage]

\* ------------------------------------------------------------------------
\* invalidateCache: which keys a change purges
\* ------------------------------------------------------------------------
NoId == -1           \* no productId in the invalidation request

\* an invalidation that names the orders where the code names the products
NewProductInvalidationOfOrders ==
    [product |-> FALSE, order |-> TRUE, user |-> FALSE, productId |-> NoId]

\* invalidateCache({product: true}), line 224
NewProductInvalidation ==
    [product |-> TRUE, order |-> FALSE, user |-> FALSE, productId |-> NoId]

\* an invalidation that leaves out the id of the product that changed
UpdateInvalidationWithoutId(updatedProduct) ==
    [product |-> TRUE, order |-> FALSE, user |-> FALSE, productId |-> NoId]

\* invalidateCache({product: true, productId: String(updatedProduct._id)})
UpdateInvalidation(updatedProduct) ==
    [product |-> TRUE, order |-> FALSE, user |-> FALSE,
     productId |-> updatedProduct._id]

\* invalidateCache({product: true, productId: String(deletedProduct._id)})
DeleteInvalidation(deletedProduct) ==
    [product |-> TRUE, order |-> FALSE, user |-> FALSE,
     productId |-> deletedProduct._id]

\* a table in which every change purges the product views too
InvalidationKeysOfAnyChange(request) ==
    (IF request.product \/ request.order \/ request.user
     THEN ViewKeys \cup {StatsKey}
     ELSE {})
    \cup (IF request.product /\ request.productId # NoId
          THEN {ProductKey(request.productId)}
          ELSE {})

\* the keys the policy table names for a request
InvalidationKeys(request) ==
    (IF request.product
     THEN ViewKeys \cup {StatsKey} \cup
          (IF request.productId = NoId THEN {}
           ELSE {ProductKey(request.productId)})
     ELSE {})
    \cup (IF request.order THEN {StatsKey} ELSE {})
    \cup (IF request.user THEN {StatsKey} ELSE {})

\* an invalidation that empties the cache when a key it names is absent
invalidateCacheFlushingOnAbsent(c, request) ==
    IF InvalidationKeys(request) \subseteq DOMAIN c
    THEN del(c, InvalidationKeys(request))
    ELSE EmptyCache

\* the cache after invalidateCache(request)
invalidateCache(c, request) == del(c, InvalidationKeys(request))

\* ------------------------------------------------------------------------
\* The document store's queries
\* ------------------------------------------------------------------------
LatestLimit == 5

Min(a, b) == IF a < b THEN a ELSE b

\* sort({createdAt: -1}): newest first
RECURSIVE SortDesc(_)
SortDesc(docs) ==
    IF docs = {} THEN <<>>
    ELSE LET d == CHOOSE x \in docs : \A y \in docs : y.createdAt <= x.createdAt
         IN  <<d>> \o SortDesc(docs \ {d})

\* Product.find({}).sort({createdAt: -1}).limit(5)
FindLatest(coll) ==
    LET all == SortDesc(coll) IN SubSeq(all, 1, Min(LatestLimit, Len(all)))

\* Product.find({}).sort({createdAt: -1})
FindAll(coll) == SortDesc(coll)

\* Product.distinct("category"); the array is kept as the set of its elements
Distinct(coll) == {d.category : d \in coll}

\* Model.findById(id): the documents with that _id, none or one
FindById(coll, id) == {d \in coll : d._id = id}

\* ------------------------------------------------------------------------
\* Requests: responses, the calls they make, and the steps they take
\* ------------------------------------------------------------------------
NoResponse == [via |-> "none", status |-> 0, payload |-> Garbage]

\* res.status(status).json({..., payload})
Json(status, payload) == [via |-> "json", status |-> status, payload |-> payload]

\* next(new ErrorHandler(message, status)), answered by errorMiddleWare
NextError(status) == [via |-> "next", status |-> status, payload |-> Garbage]

\* TryCatch: an error thrown by the controller goes to next(error); a plain
\* Error has no statusCode and errorMiddleWare answers 500
TryCatch(error) == NextError(error)
Thrown == 500

\* a call: its name and the cache keys it names; for invalidateCache also the
\* keys that were present when it was called
Event(op, keys) == [op |-> op, keys |-> keys, had |-> {}]
Invalidated(keys) == [op |-> "invalidate", keys |-> keys, had |-> DOMAIN nodeCache]
Ops(p) == {ev[p][i].op : i \in DOMAIN ev[p]}

\* request p moves on
Goto(p, to, local, response, events) ==
    /\ pc' = [pc EXCEPT ![p] = to]
    /\ loc' = [loc EXCEPT ![p] = local]
    /\ res' = [res EXCEPT ![p] = response]
    /\ ev' = [ev EXCEPT ![p] = ev[p] \o events]

\* request p starts in handler k for id
Enter(p, k, id) ==
    /\ pc[p] = "idle"
    /\ kind' = [kind EXCEPT ![p] = k]
    /\ rid' = [rid EXCEPT ![p] = id]

StoreUnchanged == UNCHANGED <<Product, nextId, UserModel, Order, clock>>
CacheUnchanged == UNCHANGED <<nodeCache, healed, lastRead>>

\* a read of key begins
ReadBegins(key) == healed' = healed \ {key}

\* a read of key answers with response
ReadAnswers(key, response) == lastRead' = set(lastRead, key, response)

\* the cache after request p called invalidateCache(request)
Invalidate(request) ==
    /\ nodeCache' = invalidateCache(nodeCache, request)
    /\ healed' = healed \cup InvalidationKeys(request)
    /\ lastRead' = del(lastRead, InvalidationKeys(request))

\* ------------------------------------------------------------------------
\* handleGetLatestProducts
\* ------------------------------------------------------------------------
\* the answer for an array of products
ListResponse(length, payload) ==
    Json(IF length > 0 THEN 200 ELSE 404, payload)

handleGetLatestProducts(p) ==
    /\ Enter(p, "handleGetLatestProducts", rid[p])
    /\ ReadBegins("latestProducts")
    /\ IF has(nodeCache, "latestProducts")
       THEN LET text == get(nodeCache, "latestProducts") IN
            IF ParseThrows(text)
            THEN /\ Goto(p, "done", {}, TryCatch(Thrown), <<>>)
                 /\ UNCHANGED lastRead
            ELSE LET products == Parse(text) IN
                 /\ Goto(p, "done", {},
                         ListResponse(Len(products), Stringify(products)), <<>>)
                 /\ ReadAnswers("latestProducts",
                                ListResponse(Len(products), Stringify(products)))
       ELSE /\ Goto(p, "find", loc[p], res[p], <<Event("query", {})>>)
            /\ UNCHANGED lastRead
    /\ UNCHANGED nodeCache
    /\ StoreUnchanged

handleGetLatestProductsFound(p) ==
    /\ pc[p] = "found"
    /\ kind[p] = "handleGetLatestProducts"
    /\ LET products == loc[p] IN
       /\ nodeCache' = set(nodeCache, "latestProducts", StringifyDocs(products))
       /\ Goto(p, "done", {},
               ListResponse(Len(products), StringifyDocs(products)),
               <<Event("set", {"latestProducts"})>>)
       /\ ReadAnswers("latestProducts",
                      ListResponse(Len(products), StringifyDocs(products)))
    /\ UNCHANGED <<kind, rid, healed>>
    /\ StoreUnchanged

\* ------------------------------------------------------------------------
\* handleGetAllCategories
\* ------------------------------------------------------------------------
handleGetAllCategories(p) ==
    /\ Enter(p, "handleGetAllCategories", rid[p])
    /\ ReadBegins("categories")
    /\ IF has(nodeCache, "categories")
       THEN LET text == get(nodeCache, "categories") IN
            IF ParseThrows(text)
            THEN /\ Goto(p, "done", {}, TryCatch(Thrown), <<>>)
                 /\ UNCHANGED lastRead
            ELSE LET categories == Parse(text) IN
                 /\ Goto(p, "done", {},
                         ListResponse(Cardinality(categories),
                                      Stringify(categories)), <<>>)
                 /\ ReadAnswers("categories",
                                ListResponse(Cardinality(categories),
                                             Stringify(categories)))
       ELSE /\ Goto(p, "distinct", loc[p], res[p], <<Event("query", {})>>)
            /\ UNCHANGED lastRead
    /\ UNCHANGED nodeCache
    /\ StoreUnchanged

handleGetAllCategoriesFound(p) ==
    /\ pc[p] = "found"
    /\ kind[p] = "handleGetAllCategories"
    /\ LET categories == loc[p] IN
       /\ nodeCache' = set(nodeCache, "categories", Stringify(categories))
       /\ Goto(p, "done", {},
               ListResponse(Cardinality(categories), Stringify(categories)),
               <<Event("set", {"categories"})>>)
       /\ ReadAnswers("categories",
                      ListResponse(Cardinality(categories),
                                   Stringify(categories)))
    /\ UNCHANGED <<kind, rid, healed>>
    /\ StoreUnchanged

\* ------------------------------------------------------------------------
\* handleGetAllAdminProducts
\* ------------------------------------------------------------------------
handleGetAllAdminProducts(p) ==
    /\ Enter(p, "handleGetAllAdminProducts", rid[p])
    /\ ReadBegins("admin-products")
    /\ IF has(nodeCache, "admin-products")
       THEN LET text == get(nodeCache, "admin-products") IN
            IF ParseThrows(text)
            THEN /\ Goto(p, "done", {}, TryCatch(Thrown), <<>>)
                 /\ UNCHANGED lastRead
            ELSE LET products == Parse(text) IN
                 /\ Goto(p, "done", {},
                         ListResponse(Len(products), Stringify(products)), <<>>)
                 /\ ReadAnswers("admin-products",
                                ListResponse(Len(products), Stringify(products)))
       ELSE /\ Goto(p, "find", loc[p], res[p], <<Event("query", {})>>)
            /\ UNCHANGED lastRead
    /\ UNCHANGED nodeCache
    /\ StoreUnchanged

handleGetAllAdminProductsFound(p) ==
    /\ pc[p] = "found"
    /\ kind[p] = "handleGetAllAdminProducts"
    /\ LET products == loc[p] IN
       /\ nodeCache' = set(nodeCache, "admin-products", StringifyDocs(products))
       /\ Goto(p, "done", {},
               ListResponse(Len(products), StringifyDocs(products)),
               <<Event("set", {"admin-products"})>>)
       /\ ReadAnswers("admin-products",
                      ListResponse(Len(products), StringifyDocs(products)))
    /\ UNCHANGED <<kind, rid, healed>>
    /\ StoreUnchanged

\* ------------------------------------------------------------------------
\* handleGetSingleProduct
\* ------------------------------------------------------------------------
\* the ids a client can name: those the store has handed out, whether their
\* products are still there or not
KnownIds == {i \in Ids : i < nextId}

\* the answer for one product or null
ProductResponse(isProduct, payload) ==
    IF isProduct THEN Json(200, payload) ELSE Json(404, Stringify(EmptyObject))

handleGetSingleProduct(p) ==
    \E id \in KnownIds :
        /\ Enter(p, "handleGetSingleProduct", id)
        /\ ReadBegins(ProductKey(id))
        /\ IF has(nodeCache, ProductKey(id))
           THEN LET text == get(nodeCache, ProductKey(id)) IN
                IF ParseThrows(text)
                THEN /\ Goto(p, "done", {}, TryCatch(Thrown), <<>>)
                     /\ UNCHANGED lastRead
                ELSE LET product == Parse(text) IN
                     /\ Goto(p, "done", {},
                             ProductResponse(product # Null, Stringify(product)),
                             <<>>)
                     /\ ReadAnswers(ProductKey(id),
                             ProductResponse(product # Null, Stringify(product)))
           ELSE /\ Goto(p, "findById", loc[p], res[p], <<Event("query", {})>>)
                /\ UNCHANGED lastRead
        /\ UNCHANGED nodeCache
        /\ StoreUnchanged

\* a read that stores only a product it found
handleGetSingleProductFoundStoringFound(p) ==
    /\ pc[p] = "found"
    /\ kind[p] = "handleGetSingleProduct"
    /\ LET product == loc[p] IN
       /\ nodeCache' = IF product = {} THEN nodeCache
                       ELSE set(nodeCache, ProductKey(rid[p]),
                                StringifyDoc(product))
       /\ Goto(p, "done", {},
               ProductResponse(product # {}, StringifyDoc(product)),
               <<Event("set", {ProductKey(rid[p])})>>)
       /\ ReadAnswers(ProductKey(rid[p]),
                      ProductResponse(product # {}, StringifyDoc(product)))
    /\ UNCHANGED <<kind, rid, healed>>
    /\ StoreUnchanged

handleGetSingleProductFound(p) ==
    /\ pc[p] = "found"
    /\ kind[p] = "handleGetSingleProduct"
    /\ LET product == loc[p] IN
       /\ nodeCache' = set(nodeCache, ProductKey(rid[p]), StringifyDoc(product))
       /\ Goto(p, "done", {},
               ProductResponse(product # {}, StringifyDoc(product)),
               <<Event("set", {ProductKey(rid[p])})>>)
       /\ ReadAnswers(ProductKey(rid[p]),
                      ProductResponse(product # {}, StringifyDoc(product)))
    /\ UNCHANGED <<kind, rid, healed>>
    /\ StoreUnchanged

\* ------------------------------------------------------------------------
\* handleNewProduct
\* ------------------------------------------------------------------------
\* the creates of products the store has been sent and has not yet run
CreatesInFlight ==
    Cardinality({q \in Procs : kind[q] = "handleNewProduct" /\ pc[q] = "create"})

\* a handler that invalidates and then creates
handleNewProductInvalidatingFirst(p) ==
    /\ Enter(p, "handleNewProduct", rid[p])
    /\ nextId + CreatesInFlight <= MaxId
    /\ Invalidate(NewProductInvalidation)
    /\ Goto(p, "create", loc[p], res[p],
            <<Invalidated(InvalidationKeys(NewProductInvalidation))>>)
    /\ StoreUnchanged

handleNewProduct(p) ==
    \E invalidFields \in BOOLEAN :
        /\ Enter(p, "handleNewProduct", rid[p])
        /\ nextId + CreatesInFlight <= MaxId
        /\ IF invalidFields
           THEN Goto(p, "done", {}, NextError(400), <<>>)
           ELSE Goto(p, "create", loc[p], res[p], <<>>)
        /\ CacheUnchanged
        /\ StoreUnchanged

handleNewProductCreated(p) ==
    /\ pc[p] = "created"
    /\ kind[p] = "handleNewProduct"
    /\ LET newProduct == loc[p] IN
       /\ Invalidate(NewProductInvalidation)
       /\ Goto(p, "done", {}, Json(201, StringifyDoc(newProduct)),
               <<Invalidated(InvalidationKeys(NewProductInvalidation))>>)
    /\ UNCHANGED <<kind, rid>>
    /\ StoreUnchanged

\* ------------------------------------------------------------------------
\* handleUpdateSingleProduct
\* ------------------------------------------------------------------------
\* the bodies a client sends: fields of the product, and one that is none
UpdateBodies ==
    {[f \in {} |-> 0]}
    \cup {[f \in {"category"} |-> c] : c \in Categories}
    \cup {[f \in {"price"} |-> n] : n \in Prices}
    \cup {[f \in {"role"} |-> "admin"]}

allowFields == {"name", "category", "price", "stock", "image"}

\* prepareUpdates: the body when all its keys are allowed, or it throws
prepareUpdates(body, allowedFields) ==
    [threw |-> ~(DOMAIN body \subseteq allowedFields), updates |-> body]

\* the document after $set of the updates
Updated(doc, updates) ==
    [doc EXCEPT
        !.category = IF "category" \in DOMAIN updates
                     THEN updates["category"] ELSE @,
        !.price = IF "price" \in DOMAIN updates THEN updates["price"] ELSE @]

handleUpdateSingleProduct(p) ==
    \E id \in KnownIds :
        /\ Enter(p, "handleUpdateSingleProduct", id)
        /\ Goto(p, "findById", loc[p], res[p], <<>>)
        /\ CacheUnchanged
        /\ StoreUnchanged

handleUpdateSingleProductFound(p) ==
    /\ pc[p] = "found"
    /\ kind[p] = "handleUpdateSingleProduct"
    /\ LET productExists == loc[p] IN
       IF productExists = {}
       THEN Goto(p, "done", {}, NextError(404), <<>>)
       ELSE \E body \in UpdateBodies :
            LET prepared == prepareUpdates(body, allowFields) IN
            IF prepared.threw
            THEN Goto(p, "done", {}, TryCatch(400), <<>>)
            ELSE Goto(p, "findByIdAndUpdate", prepared.updates, res[p], <<>>)
    /\ UNCHANGED <<kind, rid>>
    /\ CacheUnchanged
    /\ StoreUnchanged

\* an update that answers without invalidating
handleUpdateSingleProductUpdatedOnly(p) ==
    /\ pc[p] = "updated"
    /\ kind[p] = "handleUpdateSingleProduct"
    /\ LET updatedProduct == loc[p] IN
       IF updatedProduct = {}
       THEN Goto(p, "done", {}, NextError(404), <<>>)
       ELSE Goto(p, "done", {}, Json(200, StringifyDoc(updatedProduct)), <<>>)
    /\ UNCHANGED <<kind, rid>>
    /\ CacheUnchanged
    /\ StoreUnchanged

handleUpdateSingleProductUpdated(p) ==
    /\ pc[p] = "updated"
    /\ kind[p] = "handleUpdateSingleProduct"
    /\ LET updatedProduct == loc[p] IN
       IF updatedProduct = {}
       THEN /\ Goto(p, "done", {}, NextError(404), <<>>)
            /\ CacheUnchanged
       ELSE LET request == UpdateInvalidation(CHOOSE d \in updatedProduct : TRUE) IN
            /\ Invalidate(request)
            /\ Goto(p, "done", {}, Json(200, StringifyDoc(updatedProduct)),
                    <<Invalidated(InvalidationKeys(request))>>)
    /\ UNCHANGED <<kind, rid>>
    /\ StoreUnchanged

\* ------------------------------------------------------------------------
\* handleDeleteProduct
\* ------------------------------------------------------------------------
handleDeleteProduct(p) ==
    \E id \in KnownIds :
        /\ Enter(p, "handleDeleteProduct", id)
        /\ Goto(p, "findById", loc[p], res[p], <<>>)
        /\ CacheUnchanged
        /\ StoreUnchanged

handleDeleteProductFound(p) ==
    /\ pc[p] = "found"
    /\ kind[p] = "handleDeleteProduct"
    /\ LET productExists == loc[p] IN
       IF productExists = {}
       THEN Goto(p, "done", {}, NextError(404), <<>>)
       ELSE Goto(p, "findByIdAndDelete", {}, res[p], <<>>)
    /\ UNCHANGED <<kind, rid>>
    /\ CacheUnchanged
    /\ StoreUnchanged

\* a delete that invalidates before it looks at what the store returned
handleDeleteProductDeletedInvalidatingFirst(p) ==
    /\ pc[p] = "deleted"
    /\ kind[p] = "handleDeleteProduct"
    /\ LET deletedProduct == loc[p]
           request == DeleteInvalidation([_id |-> rid[p]])
       IN  /\ Invalidate(request)
           /\ Goto(p, "done", {},
                   IF deletedProduct = {} THEN NextError(404)
                   ELSE Json(200, StringifyDoc(deletedProduct)),
                   <<Invalidated(InvalidationKeys(request))>>)
    /\ UNCHANGED <<kind, rid>>
    /\ StoreUnchanged

handleDeleteProductDeleted(p) ==
    /\ pc[p] = "deleted"
    /\ kind[p] = "handleDeleteProduct"
    /\ LET deletedProduct == loc[p] IN
       IF deletedProduct = {}
       THEN /\ Goto(p, "done", {}, NextError(404), <<>>)
            /\ CacheUnchanged
       ELSE LET request == DeleteInvalidation(CHOOSE d \in deletedProduct : TRUE) IN
            /\ Invalidate(request)
            /\ Goto(p, "done", {}, Json(200, StringifyDoc(deletedProduct)),
                    <<Invalidated(InvalidationKeys(request))>>)
    /\ UNCHANGED <<kind, rid>>
    /\ StoreUnchanged

\* ------------------------------------------------------------------------
\* handleNewUser
\* ------------------------------------------------------------------------
handleNewUser(p) ==
    \E id \in UserIds :
        /\ Enter(p, "handleNewUser", id)
        /\ Goto(p, "findById", loc[p], res[p], <<>>)
        /\ CacheUnchanged
        /\ StoreUnchanged

handleNewUserFound(p) ==
    /\ pc[p] = "found"
    /\ kind[p] = "handleNewUser"
    /\ LET user == loc[p] IN
       IF user # {}
       THEN Goto(p, "done", {}, Json(200, Stringify(user)), <<>>)
       ELSE Goto(p, "create", loc[p], res[p], <<>>)
    /\ UNCHANGED <<kind, rid>>
    /\ CacheUnchanged
    /\ StoreUnchanged

handleNewUserCreated(p) ==
    /\ pc[p] = "created"
    /\ kind[p] = "handleNewUser"
    /\ Goto(p, "done", {}, Json(201, Stringify({})), <<>>)
    /\ UNCHANGED <<kind, rid>>
    /\ CacheUnchanged
    /\ StoreUnchanged

\* ------------------------------------------------------------------------
\* The document store answers the queries it was sent
\* ------------------------------------------------------------------------
\* find, distinct and findById read the collection as it is now
Find(p) ==
    /\ pc[p] \in {"find", "distinct", "findById"}
    /\ LET result ==
            CASE kind[p] = "handleGetLatestProducts" -> FindLatest(Product)
              [] kind[p] = "handleGetAllAdminProducts" -> FindAll(Product)
              [] kind[p] = "handleGetAllCategories" -> Distinct(Product)
              [] kind[p] = "handleNewUser" -> FindById(UserModel, rid[p])
              [] OTHER -> FindById(Product, rid[p])
       IN  Goto(p, "found", result, res[p], <<>>)
    /\ UNCHANGED <<kind, rid>>
    /\ CacheUnchanged
    /\ StoreUnchanged

\* Product.create: a new document with a fresh _id, stamped with the time
Create(p) ==
    /\ pc[p] = "create"
    /\ kind[p] = "handleNewProduct"
    /\ nextId <= MaxId
    /\ \E category \in Categories, price \in Prices :
        LET doc == [_id |-> nextId, category |-> category, price |-> price,
                    createdAt |-> clock]
        IN  /\ Product' = Product \cup {doc}
            /\ Goto(p, "created", {doc}, res[p], <<Event("write", {})>>)
    /\ nextId' = nextId + 1
    /\ clock' = clock + 1
    /\ UNCHANGED <<kind, rid, UserModel, Order>>
    /\ CacheUnchanged

\* UserModel.create: the _id is the client's; a second document with the
\* same _id is a duplicate key error
CreateUser(p) ==
    /\ pc[p] = "create"
    /\ kind[p] = "handleNewUser"
    /\ IF FindById(UserModel, rid[p]) # {}
       THEN /\ Goto(p, "done", {}, TryCatch(Thrown), <<>>)
            /\ UNCHANGED <<UserModel, clock>>
       ELSE LET user == [_id |-> rid[p], createdAt |-> clock] IN
            /\ UserModel' = UserModel \cup {user}
            /\ clock' = clock + 1
            /\ Goto(p, "created", {user}, res[p], <<Event("write", {})>>)
    /\ UNCHANGED <<kind, rid, Product, nextId, Order>>
    /\ CacheUnchanged

\* Product.findByIdAndUpdate(id, updates, {new: true}): null when there is
\* no such document, else the document after the update
FindByIdAndUpdate(p) ==
    /\ pc[p] = "findByIdAndUpdate"
    /\ LET found == FindById(Product, rid[p])
           after == {Updated(d, loc[p]) : d \in found}
       IN  /\ Product' = (Product \ found) \cup after
           /\ Goto(p, "updated", after, res[p],
                   IF found = {} THEN <<>> ELSE <<Event("write", {})>>)
    /\ UNCHANGED <<kind, rid, nextId, UserModel, Order, clock>>
    /\ CacheUnchanged

\* Product.findByIdAndDelete(id): null when there is no such document, else
\* the document it removed
FindByIdAndDelete(p) ==
    /\ pc[p] = "findByIdAndDelete"
    /\ LET found == FindById(Product, rid[p]) IN
       /\ Product' = Product \ found
       /\ Goto(p, "deleted", found, res[p],
               IF found = {} THEN <<>> ELSE <<Event("write", {})>>)
    /\ UNCHANGED <<kind, rid, nextId, UserModel, Order, clock>>
    /\ CacheUnchanged

\* a failed query answered with an empty success response
RejectDegraded(p) ==
    /\ pc[p] \in {"find", "distinct", "findById", "create",
                  "findByIdAndUpdate", "findByIdAndDelete", "all"}
    /\ Goto(p, "done", {}, Json(200, Stringify(Null)), <<Event("rejected", {})>>)
    /\ UNCHANGED <<kind, rid>>
    /\ CacheUnchanged
    /\ StoreUnchanged

\* a query fails: the await throws and TryCatch passes the error to next
Reject(p) ==
    /\ pc[p] \in {"find", "distinct", "findById", "create",
                  "findByIdAndUpdate", "findByIdAndDelete", "all"}
    /\ Goto(p, "done", {}, TryCatch(Thrown), <<Event("rejected", {})>>)
    /\ UNCHANGED <<kind, rid>>
    /\ CacheUnchanged
    /\ StoreUnchanged

\* the response is out and the request is over
Finish(p) ==
    /\ pc[p] = "done"
    /\ pc' = [pc EXCEPT ![p] = "idle"]
    /\ kind' = [kind EXCEPT ![p] = "none"]
    /\ rid' = [rid EXCEPT ![p] = MissingId]
    /\ loc' = [loc EXCEPT ![p] = {}]
    /\ res' = [res EXCEPT ![p] = NoResponse]
    /\ ev' = [ev EXCEPT ![p] = <<>>]
    /\ CacheUnchanged
    /\ StoreUnchanged

\* ------------------------------------------------------------------------
\* Dates: instants are integers, DayTicks to a day, MonthDays days to a month
\* ------------------------------------------------------------------------
DayTicks == 3
MonthDays == 2
MonthTicks == DayTicks * MonthDays

\* new Date(year, month, day): midnight of that day; day 0 is the last day of
\* the month before
DateOf(month, day) == month * MonthTicks + (day - 1) * DayTicks

\* today.getMonth(), counted from the epoch
MonthOf(t) == t \div MonthTicks

thisMonth(today) ==
    [start |-> DateOf(MonthOf(today), 1), end |-> today]

lastMonth(today) ==
    [start |-> DateOf(MonthOf(today) - 1, 1), end |-> DateOf(MonthOf(today), 0)]

\* find({createdAt: {$gt: start, $lte: end}})
FindGtLte(coll, window) ==
    {d \in coll : d.createdAt > window.start /\ d.createdAt <= window.end}

\* find({createdAt: {$gte: start, $lte: end}})
FindGteLte(coll, window) ==
    {d \in coll : d.createdAt >= window.start /\ d.createdAt <= window.end}

\* ------------------------------------------------------------------------
\* calculatePercentage, in hundredths of a percent
\* ------------------------------------------------------------------------
PercentScale == 100

\* n / d rounded to the nearest integer, halves away from zero (toFixed)
RoundDiv(n, d) ==
    IF n >= 0 THEN (2 * n + d) \div (2 * d)
    ELSE -((2 * (-n) + d) \div (2 * d))

\* the ratio of the two values where the delta is meant
calculatePercentageOfRatio(current, previous) ==
    IF previous = 0 THEN current * 100 * PercentScale
    ELSE RoundDiv(current * 100 * PercentScale, previous)

calculatePercentage(current, previous) ==
    IF previous = 0 THEN current * 100 * PercentScale
    ELSE RoundDiv((current - previous) * 100 * PercentScale, previous)

\* ------------------------------------------------------------------------
\* handleGetDashboardStats
\* ------------------------------------------------------------------------
StatsQueries ==
    {"thisMonthProducts", "lastMonthProducts", "thisMonthUsers",
     "lastMonthUsers", "thisMonthOrders", "lastMonthOrders",
     "totalProducts", "totalUsers", "allOrder"}

\* what the store answers to query q of a request that took today as the date
StatsAnswer(q, today) ==
    CASE q = "thisMonthProducts" -> FindGtLte(Product, thisMonth(today))
      [] q = "lastMonthProducts" -> FindGtLte(Product, lastMonth(today))
      [] q = "thisMonthUsers" -> FindGteLte(UserModel, thisMonth(today))
      [] q = "lastMonthUsers" -> FindGteLte(UserModel, lastMonth(today))
      [] q = "thisMonthOrders" -> FindGteLte(Order, thisMonth(today))
      [] q = "lastMonthOrders" -> FindGteLte(Order, lastMonth(today))
      [] q = "totalProducts" -> Cardinality(Product)
      [] q = "totalUsers" -> Cardinality(UserModel)
      [] q = "allOrder" -> Order

\* orders.reduce((total, order) => total + (order.total || 0), 0)
RECURSIVE Revenue(_)
Revenue(orders) ==
    IF orders = {} THEN 0
    ELSE LET order == CHOOSE o \in orders : TRUE IN
         (IF order.hasTotal THEN order.total ELSE 0) + Revenue(orders \ {order})

\* a snapshot that counts this month's orders where all orders are meant
StatsCountingThisMonth(r) ==
    [percentage |->
        [revenue |-> calculatePercentage(Revenue(r["thisMonthOrders"]),
                                         Revenue(r["lastMonthOrders"])),
         product |-> calculatePercentage(Cardinality(r["thisMonthProducts"]),
                                         Cardinality(r["lastMonthProducts"])),
         user |-> calculatePercentage(Cardinality(r["thisMonthUsers"]),
                                      Cardinality(r["lastMonthUsers"])),
         order |-> calculatePercentage(Cardinality(r["thisMonthOrders"]),
                                       Cardinality(r["lastMonthOrders"]))],
     count |->
        [revenue |-> Revenue(r["thisMonthOrders"]),
         product |-> r["totalProducts"],
         user |-> r["totalUsers"],
         order |-> Cardinality(r["thisMonthOrders"])]]

\* a snapshot whose revenue percentage takes last month as the current value
StatsWithRevenueSwapped(r) ==
    [percentage |->
        [revenue |-> calculatePercentage(Revenue(r["lastMonthOrders"]),
                                         Revenue(r["thisMonthOrders"])),
         product |-> calculatePercentage(Cardinality(r["thisMonthProducts"]),
                                         Cardinality(r["lastMonthProducts"])),
         user |-> calculatePercentage(Cardinality(r["thisMonthUsers"]),
                                      Cardinality(r["lastMonthUsers"])),
         order |-> calculatePercentage(Cardinality(r["thisMonthOrders"]),
                                       Cardinality(r["lastMonthOrders"]))],
     count |->
        [revenue |-> Revenue(r["allOrder"]),
         product |-> r["totalProducts"],
         user |-> r["totalUsers"],
         order |-> Cardinality(r["allOrder"])]]

\* the snapshot built from the nine results
Stats(r) ==
    [percentage |->
        [revenue |-> calculatePercentage(Revenue(r["thisMonthOrders"]),
                                         Revenue(r["lastMonthOrders"])),
         product |-> calculatePercentage(Cardinality(r["thisMonthProducts"]),
                                         Cardinality(r["lastMonthProducts"])),
         user |-> calculatePercentage(Cardinality(r["thisMonthUsers"]),
                                      Cardinality(r["lastMonthUsers"])),
         order |-> calculatePercentage(Cardinality(r["thisMonthOrders"]),
                                       Cardinality(r["lastMonthOrders"]))],
     count |->
        [revenue |-> Revenue(r["allOrder"]),
         product |-> r["totalProducts"],
         user |-> r["totalUsers"],
         order |-> Cardinality(r["allOrder"])]]

StatsInFlight ==
    Cardinality({q \in Procs : kind[q] = "handleGetDashboardStats"
                               /\ pc[q] = "all"})

NoResults == [q \in {} |-> 0]

handleGetDashboardStats(p) ==
    /\ Enter(p, "handleGetDashboardStats", rid[p])
    /\ ReadBegins(StatsKey)
    /\ IF has(nodeCache, StatsKey)
       THEN LET text == get(nodeCache, StatsKey) IN
            IF ParseThrows(text)
            THEN /\ Goto(p, "done", {}, TryCatch(Thrown), <<>>)
                 /\ UNCHANGED lastRead
            ELSE LET stats == Parse(text) IN
                 /\ Goto(p, "done", {}, Json(200, Stringify(stats)), <<>>)
                 /\ ReadAnswers(StatsKey, Json(200, Stringify(stats)))
       ELSE /\ StatsInFlight < MaxStats
            /\ Goto(p, "all", [today |-> clock, results |-> NoResults],
                    res[p], <<Event("query", {})>>)
            /\ UNCHANGED lastRead
    /\ UNCHANGED nodeCache
    /\ StoreUnchanged

\* the store answers one of the nine queries of request p
Answer(p) ==
    /\ pc[p] = "all"
    /\ \E q \in StatsQueries \ DOMAIN loc[p].results :
        Goto(p, "all",
             [loc[p] EXCEPT !.results =
                 [n \in DOMAIN loc[p].results \cup {q} |->
                     IF n = q THEN StatsAnswer(q, loc[p].today)
                     ELSE loc[p].results[n]]],
             res[p], <<>>)
    /\ UNCHANGED <<kind, rid>>
    /\ CacheUnchanged
    /\ StoreUnchanged

\* a handler that goes on at the first result and reads the rest as the store
\* is then
handleGetDashboardStatsAny(p) ==
    /\ pc[p] = "all"
    /\ kind[p] = "handleGetDashboardStats"
    /\ loc[p].results # NoResults
    /\ LET stats == Stats([q \in StatsQueries |->
                            IF q \in DOMAIN loc[p].results
                            THEN loc[p].results[q]
                            ELSE StatsAnswer(q, loc[p].today)]) IN
       /\ Goto(p, "done", {}, Json(200, Stringify(stats)), <<>>)
       /\ ReadAnswers(StatsKey, Json(200, Stringify(stats)))
    /\ UNCHANGED <<kind, rid, nodeCache, healed>>
    /\ StoreUnchanged

\* Promise.all has all nine results: the snapshot is built and sent
handleGetDashboardStatsAll(p) ==
    /\ pc[p] = "all"
    /\ kind[p] = "handleGetDashboardStats"
    /\ DOMAIN loc[p].results = StatsQueries
    /\ LET stats == Stats(loc[p].results) IN
       /\ Goto(p, "done", {}, Json(200, Stringify(stats)), <<>>)
       /\ ReadAnswers(StatsKey, Json(200, Stringify(stats)))
    /\ UNCHANGED <<kind, rid, nodeCache, healed>>
    /\ StoreUnchanged

\* ------------------------------------------------------------------------
\* Specifications
\* ------------------------------------------------------------------------
\* no request yet
Quiet ==
    /\ healed = {}
    /\ lastRead = [k \in {} |-> NoResponse]
    /\ pc = [p \in Procs |-> "idle"]
    /\ kind = [p \in Procs |-> "none"]
    /\ rid = [p \in Procs |-> MissingId]
    /\ loc = [p \in Procs |-> {}]
    /\ res = [p \in Procs |-> NoResponse]
    /\ ev = [p \in Procs |-> <<>>]

\* the process has started: no request yet, nothing cached
Started == Quiet /\ nodeCache = EmptyCache

\* the first instant of this month is one tick back
Now == DateOf(1, 1) + 1

\* the store's steps
Store(p) ==
    \/ Find(p)
    \/ Create(p)
    \/ FindByIdAndUpdate(p)
    \/ FindByIdAndDelete(p)
    \/ Reject(p)

\* Spec: the three view reads against product writes.  The store has handed
\* out all ids but the last and their products are gone.
Init ==
    /\ Product = {}
    /\ nextId = MaxId
    /\ UserModel = {}
    /\ Order = {}
    /\ clock = Now
    /\ Started

Next ==
    \E p \in Procs :
        \/ handleGetLatestProducts(p)
        \/ handleGetLatestProductsFound(p)
        \/ handleGetAllCategories(p)
        \/ handleGetAllCategoriesFound(p)
        \/ handleGetAllAdminProducts(p)
        \/ handleGetAllAdminProductsFound(p)
        \/ handleNewProduct(p)
        \/ handleNewProductCreated(p)
        \/ handleUpdateSingleProduct(p)
        \/ handleUpdateSingleProductFound(p)
        \/ handleUpdateSingleProductUpdated(p)
        \/ handleDeleteProduct(p)
        \/ handleDeleteProductFound(p)
        \/ handleDeleteProductDeleted(p)
        \/ Store(p)
        \/ Finish(p)

Spec == Init /\ [][Next]_vars

\* SpecProducts: single-product reads against updates and deletes of the
\* products the store holds
InitProducts ==
    /\ Product = {[_id |-> i, category |-> "a", price |-> 1, createdAt |-> i]
                  : i \in Ids}
    /\ nextId = MaxId + 1
    /\ UserModel = {}
    /\ Order = {}
    /\ clock = Now
    /\ Started

NextProducts ==
    \E p \in Procs :
        \/ handleGetSingleProduct(p)
        \/ handleGetSingleProductFound(p)
        \/ handleUpdateSingleProduct(p)
        \/ handleUpdateSingleProductFound(p)
        \/ handleUpdateSingleProductUpdated(p)
        \/ handleDeleteProduct(p)
        \/ handleDeleteProductFound(p)
        \/ handleDeleteProductDeleted(p)
        \/ Find(p)
        \/ FindByIdAndUpdate(p)
        \/ FindByIdAndDelete(p)
        \/ Reject(p)
        \/ Finish(p)

SpecProducts == InitProducts /\ [][NextProducts]_vars

\* SpecStats: the dashboard and the latest products against sign-ups
InitStats ==
    /\ Product = {[_id |-> 1, category |-> "a", price |-> 1, createdAt |-> 1]}
    /\ nextId = 2
    /\ UserModel = {}
    /\ Order = {[_id |-> 1, hasTotal |-> TRUE, total |-> 2, createdAt |-> 1],
                [_id |-> 2, hasTotal |-> TRUE, total |-> 3, createdAt |-> Now - 1],
                [_id |-> 3, hasTotal |-> FALSE, total |-> 0, createdAt |-> Now - 1]}
    /\ clock = Now
    /\ Started

NextStats ==
    \E p \in Procs :
        \/ handleGetDashboardStats(p)
        \/ handleGetDashboardStatsAll(p)
        \/ Answer(p)
        \/ handleGetLatestProducts(p)
        \/ handleGetLatestProductsFound(p)
        \/ handleNewUser(p)
        \/ handleNewUserFound(p)
        \/ handleNewUserCreated(p)
        \/ Find(p)
        \/ CreateUser(p)
        \/ Reject(p)
        \/ Finish(p)

SpecStats == InitStats /\ [][NextStats]_vars

\* SpecDecode: the latest products and the dashboard when other code of the
\* process has written a text that is not JSON into the cache it shares
InitDecode ==
    /\ Product = {[_id |-> i, category |-> "a", price |-> 1, createdAt |-> i]
                  : i \in Ids}
    /\ nextId = MaxId + 1
    /\ UserModel = {}
    /\ Order = {}
    /\ clock = Now
    /\ Quiet
    /\ \E S \in SUBSET {"latestProducts", StatsKey} :
        nodeCache = [k \in S |-> Garbage]

NextDecode ==
    \E p \in Procs :
        \/ handleGetLatestProducts(p)
        \/ handleGetLatestProductsFound(p)
        \/ handleGetDashboardStats(p)
        \/ handleGetDashboardStatsAll(p)
        \/ Answer(p)
        \/ Find(p)
        \/ Finish(p)

SpecDecode == InitDecode /\ [][NextDecode]_vars

\* SpecPercent: the dashboard over stores whose this-month and last-month
\* revenues are drawn from Totals; the third order has no total
Totals == {0, 5, 50, 100, 150, 200, 300}

InitPercent ==
    /\ Product = {[_id |-> 1, category |-> "a", price |-> 1, createdAt |-> 1]}
    /\ nextId = 2
    /\ UserModel = {}
    /\ \E a \in Totals, b \in Totals :
        Order = {[_id |-> 1, hasTotal |-> TRUE, total |-> a, createdAt |-> Now],
                 [_id |-> 2, hasTotal |-> TRUE, total |-> b, createdAt |-> 1],
                 [_id |-> 3, hasTotal |-> FALSE, total |-> 0, createdAt |-> 1]}
    /\ clock = Now
    /\ Started

NextPercent ==
    \E p \in Procs :
        \/ handleGetDashboardStats(p)
        \/ handleGetDashboardStatsAll(p)
        \/ Answer(p)
        \/ Finish(p)

SpecPercent == InitPercent /\ [][NextPercent]_vars

\* SpecWindows: the dashboard on the first instant of a month, one tick into
\* it and on its last day, over a store whose product, user and orders were
\* created at one instant of this month or of the month before
Todays == {DateOf(1, 1), Now, DateOf(1, MonthDays) + 1}

InitWindows ==
    /\ \E today \in Todays :
        /\ clock = today
        /\ \E t \in 0..today :
            /\ Product = {[_id |-> 1, category |-> "a", price |-> 1,
                           createdAt |-> t]}
            /\ UserModel = {[_id |-> 1, createdAt |-> t]}
            /\ Order = {[_id |-> 1, hasTotal |-> TRUE, total |-> 2,
                         createdAt |-> t],
                        [_id |-> 2, hasTotal |-> FALSE, total |-> 0,
                         createdAt |-> t],
                        [_id |-> 3, hasTotal |-> TRUE, total |-> 3,
                         createdAt |-> 0]}
    /\ nextId = 2
    /\ Started

NextWindows ==
    \E p \in Procs :
        \/ handleGetDashboardStats(p)
        \/ handleGetDashboardStatsAll(p)
        \/ Answer(p)
        \/ Finish(p)

SpecWindows == InitWindows /\ [][NextWindows]_vars

\* ------------------------------------------------------------------------
\* Properties
\* ------------------------------------------------------------------------
ReadPaths ==
    {"handleGetLatestProducts", "handleGetAllCategories",
     "handleGetAllAdminProducts", "handleGetSingleProduct",
     "handleGetDashboardStats"}

ProductWrites ==
    {"handleNewProduct", "handleUpdateSingleProduct", "handleDeleteProduct"}

\* the cache key of a read request
KeyOf(k, id) ==
    CASE k = "handleGetLatestProducts" -> "latestProducts"
      [] k = "handleGetAllCategories" -> "categories"
      [] k = "handleGetAllAdminProducts" -> "admin-products"
      [] k = "handleGetSingleProduct" -> ProductKey(id)
      [] k = "handleGetDashboardStats" -> StatsKey

\* the text a read of a product key would store if it ran on the store now
Current(key) ==
    CASE key = "latestProducts" -> StringifyDocs(FindLatest(Product))
      [] key = "categories" -> Stringify(Distinct(Product))
      [] key = "admin-products" -> StringifyDocs(FindAll(Product))
      [] OTHER ->
         StringifyDoc(FindById(Product, CHOOSE i \in Ids : ProductKey(i) = key))

\* request q has committed a product write and has not yet invalidated
InWindow(q) ==
    /\ kind[q] \in ProductWrites
    /\ pc[q] \in {"created", "updated", "deleted"}
    /\ loc[q] # {}

OpsNext(p) == {ev'[p][i].op : i \in DOMAIN ev'[p]}

\* the invalidateCache calls of request p
Invalidations(p) == {i \in DOMAIN ev[p] : ev[p][i].op = "invalidate"}

\* C1: when no product write stands between its commit and its invalidation,
\* every product key the cache holds has the text of the store as it is now,
\* so that no read served from the cache is older than the store.
C1_StaleOnlyInWindow ==
    (\A q \in Procs : ~InWindow(q)) =>
        \A key \in DOMAIN nodeCache \ {StatsKey} : nodeCache[key] = Current(key)

\* C2: once an invalidation of a key has completed, and no read of the key has
\* begun since and no write waits for its invalidation, the key is absent or
\* holds the store as it is now: the next read returns the current state.
C2_SelfHealing ==
    (\A q \in Procs : ~InWindow(q)) =>
        \A key \in (healed \cap DOMAIN nodeCache) \ {StatsKey} :
            nodeCache[key] = Current(key)

\* C3: the step in which handleNewProduct invalidates leaves latestProducts,
\* categories, admin-products and admin-stats absent, whatever was cached.
C3_NewProductPurgesViews ==
    [][\A p \in Procs :
        (kind[p] = "handleNewProduct" /\ pc[p] = "created" /\ pc'[p] = "done")
        => \A key \in ViewKeys \cup {StatsKey} : ~has(nodeCache', key)]_vars

\* C3 witness: a product was created while all three views were cached, and
\* the four keys are absent
C3_Witness ==
    \E p \in Procs :
        /\ kind[p] = "handleNewProduct"
        /\ pc[p] = "done"
        /\ res[p].status = 201
        /\ \E i \in Invalidations(p) : ViewKeys \subseteq ev[p][i].had
        /\ \A key \in ViewKeys \cup {StatsKey} : ~has(nodeCache, key)

\* C4: the step in which an update or delete of product X invalidates leaves
\* product-X absent and every other product-Y entry as it was.
C4_ProductKeyFrame ==
    [][\A p \in Procs :
        (/\ kind[p] \in {"handleUpdateSingleProduct", "handleDeleteProduct"}
         /\ pc[p] \in {"updated", "deleted"}
         /\ loc[p] # {}
         /\ pc'[p] = "done")
        => /\ ~has(nodeCache', ProductKey(rid[p]))
           /\ \A y \in Ids \ {rid[p]} :
                has(nodeCache, ProductKey(y)) =>
                    /\ has(nodeCache', ProductKey(y))
                    /\ nodeCache'[ProductKey(y)] = nodeCache[ProductKey(y)]]_vars

\* C4 witness: an update of X purged product-X while product-Y was cached, and
\* product-Y is still cached
C4_Witness ==
    \E p \in Procs :
        /\ kind[p] = "handleUpdateSingleProduct"
        /\ pc[p] = "done"
        /\ res[p].status = 200
        /\ \E i \in Invalidations(p), y \in Ids \ {rid[p]} :
            /\ ProductKey(rid[p]) \in ev[p][i].had
            /\ ProductKey(y) \in ev[p][i].had
            /\ has(nodeCache, ProductKey(y))
        /\ ~has(nodeCache, ProductKey(rid[p]))

\* C5: a dashboard read that missed and got its nine results has stored the
\* snapshot it returns under admin-stats.
C5_StatsStored ==
    \A p \in Procs :
        (/\ kind[p] = "handleGetDashboardStats"
         /\ pc[p] = "done"
         /\ "query" \in Ops(p)
         /\ res[p].via = "json")
        => /\ has(nodeCache, StatsKey)
           /\ nodeCache[StatsKey] = res[p].payload

\* C6: a handleNewUser request that created a user has invalidated admin-stats
\* and the key is absent.
C6_NewUserInvalidatesStats ==
    \A p \in Procs :
        (kind[p] = "handleNewUser" /\ pc[p] = "done" /\ "write" \in Ops(p))
        => /\ \E i \in Invalidations(p) : StatsKey \in ev[p][i].keys
           /\ ~has(nodeCache, StatsKey)

\* C7: a read that begins when a read of the same key has answered since the
\* key's last invalidation is served from the cache, sending no query, and
\* answers what that read answered.
C7_ReadThroughIdempotent ==
    [][\A p \in Procs :
        (/\ pc[p] = "idle"
         /\ pc'[p] # "idle"
         /\ kind'[p] \in ReadPaths
         /\ KeyOf(kind'[p], rid'[p]) \in DOMAIN lastRead)
        => /\ pc'[p] = "done"
           /\ "query" \notin OpsNext(p)
           /\ res'[p] = lastRead[KeyOf(kind'[p], rid'[p])]]_vars

\* C8: in every product create, update and delete a call of invalidateCache
\* comes after the request's store write has committed; a request that has
\* written nothing has invalidated nothing.
C8_WriteThenInvalidate ==
    \A p \in Procs :
        \A i \in Invalidations(p) :
            /\ kind[p] \in ProductWrites
            /\ \E j \in 1..(i - 1) : ev[p][j].op = "write"

\* C8 witness: an update that wrote and then invalidated
C8_Witness ==
    \E p \in Procs :
        /\ kind[p] = "handleUpdateSingleProduct"
        /\ pc[p] = "done"
        /\ res[p].status = 200
        /\ Invalidations(p) # {}

\* C9: the step in which a store query of a read fails ends the request with
\* the error passed to next, no response of the handler, the cache as it was,
\* and nothing stored by the request.
C9_FailedReadLeavesCache ==
    [][\A p \in Procs :
        (/\ kind[p] \in ReadPaths
         /\ "rejected" \notin Ops(p)
         /\ "rejected" \in OpsNext(p))
        => /\ pc'[p] = "done"
           /\ res'[p].via = "next"
           /\ nodeCache' = nodeCache
           /\ "set" \notin OpsNext(p)]_vars

\* C9 witness: a dashboard read and a latest-products read have both failed,
\* and the cache holds nothing
C9_Witness ==
    \E p, q \in Procs :
        /\ kind[p] = "handleGetDashboardStats"
        /\ "rejected" \in Ops(p)
        /\ res[p].via = "next"
        /\ kind[q] = "handleGetLatestProducts"
        /\ "rejected" \in Ops(q)
        /\ res[q].via = "next"
        /\ nodeCache = EmptyCache

Sends(p) ==
    /\ kind[p] = "handleGetDashboardStats"
    /\ pc[p] = "all"
    /\ pc'[p] = "done"
    /\ res'[p].via = "json"

\* a dashboard request that computed its snapshot and sent it
Sent(p) ==
    /\ kind[p] = "handleGetDashboardStats"
    /\ pc[p] = "done"
    /\ "query" \in Ops(p)
    /\ res[p].via = "json"

StatsFields == {"revenue", "product", "user", "order"}

\* the this-month and last-month figures the handler compares for a field
ThisMonthOf(r, f) ==
    CASE f = "revenue" -> Revenue(r["thisMonthOrders"])
      [] f = "product" -> Cardinality(r["thisMonthProducts"])
      [] f = "user" -> Cardinality(r["thisMonthUsers"])
      [] f = "order" -> Cardinality(r["thisMonthOrders"])

LastMonthOf(r, f) ==
    CASE f = "revenue" -> Revenue(r["lastMonthOrders"])
      [] f = "product" -> Cardinality(r["lastMonthProducts"])
      [] f = "user" -> Cardinality(r["lastMonthUsers"])
      [] f = "order" -> Cardinality(r["lastMonthOrders"])

\* what the nine queries answer on the store as it is now
ResultsNow == [q \in StatsQueries |-> StatsAnswer(q, clock)]

\* C11: in every snapshot the dashboard sends, a percentage whose last-month
\* figure is 0 is the this-month figure times 100 (here in hundredths of a
\* percent), so 5 against 0 is 500 and 0 against 0 is 0; the value is a number.
C11_ZeroBaseline ==
    [][\A p \in Procs :
        Sends(p) =>
            \A f \in StatsFields :
                LastMonthOf(loc[p].results, f) = 0 =>
                    /\ Parse(res'[p].payload).percentage[f] \in Int
                    /\ Parse(res'[p].payload).percentage[f]
                         = ThisMonthOf(loc[p].results, f) * 100 * PercentScale]_vars

\* C11 witness: a snapshot was sent for revenue 5 this month against 0 last
\* month, and its revenue percentage is 500
C11_Witness ==
    \E p \in Procs :
        /\ Sent(p)
        /\ ThisMonthOf(ResultsNow, "revenue") = 5
        /\ LastMonthOf(ResultsNow, "revenue") = 0
        /\ Parse(res[p].payload).percentage.revenue = 500 * PercentScale

Abs(n) == IF n < 0 THEN -n ELSE n

RECURSIVE TotalOf(_)
TotalOf(orders) ==
    IF orders = {} THEN 0
    ELSE LET least == CHOOSE o \in orders : \A x \in orders : o._id <= x._id
         IN  TotalOf(orders \ {least}) + (IF least.hasTotal THEN least.total ELSE 0)

\* C13: a snapshot computed on a miss over a store that does not change has
\* count.product the number of products, count.user the number of users,
\* count.order the number of orders and count.revenue the sum of total over
\* all orders, a missing total counting 0, whenever the documents were created
\* and whatever the date is.
C13_CountsAreTotals ==
    \A p \in Procs :
        Sent(p) =>
            LET count == Parse(res[p].payload).count IN
            /\ count.product = Cardinality(Product)
            /\ count.user = Cardinality(UserModel)
            /\ count.order = Cardinality(Order)
            /\ count.revenue = TotalOf(Order)

\* C13 witness: a snapshot was sent that counts three orders, one of them
\* without total, none of them created this month
C13_Witness ==
    \E p \in Procs :
        /\ Sent(p)
        /\ \E o \in Order : ~o.hasTotal
        /\ ThisMonthOf(ResultsNow, "order") = 0
        /\ Parse(res[p].payload).count.order = 3
        /\ Parse(res[p].payload).count.revenue = 5

\* C14: the step in which a latest-products read answers from the store leaves
\* latestProducts present, and the step in which a product create, update or
\* delete that wrote invalidates leaves it absent, whichever product was
\* written, whichever field, and whatever the cached view held.
C14_WholeViewInvalidation ==
    [][\A p \in Procs :
        /\ (/\ kind[p] = "handleGetLatestProducts"
            /\ pc[p] = "found"
            /\ pc'[p] = "done")
           => has(nodeCache', "latestProducts")
        /\ (InWindow(p) /\ pc'[p] = "done")
           => ~has(nodeCache', "latestProducts")]_vars

\* C14 witness: a read cached the view of an empty store, and a write of a
\* product that is not in that view found latestProducts present and purged it
C14_Witness ==
    \E p, q \in Procs :
        /\ kind[q] = "handleGetLatestProducts"
        /\ pc[q] = "done"
        /\ "set" \in Ops(q)
        /\ Parse(res[q].payload) = <<>>
        /\ kind[p] \in ProductWrites
        /\ pc[p] = "done"
        /\ res[p].via = "json"
        /\ \E i \in Invalidations(p) : "latestProducts" \in ev[p][i].had
        /\ ~has(nodeCache, "latestProducts")

\* ------------------------------------------------------------------------
\* SpecInvalidate: the invalidation policy applied to any cache.  The write
\* sites of orders and users are not among the controllers above; a request
\* here is one call of invalidateCache with a request of the policy table.
\* ------------------------------------------------------------------------
\* a key another part of the process keeps in the same cache
OtherKey == "other"

OrderInvalidation ==
    [product |-> FALSE, order |-> TRUE, user |-> FALSE, productId |-> NoId]

UserInvalidation ==
    [product |-> FALSE, order |-> FALSE, user |-> TRUE, productId |-> NoId]

InvalidationRequests ==
    {NewProductInvalidation, OrderInvalidation, UserInvalidation}
        \cup {UpdateInvalidation(d) : d \in Product}

\* the text a read would have stored under key
TextOf(key) ==
    IF key \in ViewKeys \cup ProductKeys THEN Current(key)
    ELSE IF key = StatsKey THEN Stringify(Stats(ResultsNow))
    ELSE Stringify(EmptyObject)

InitInvalidate ==
    /\ Product = {[_id |-> i, category |-> "a", price |-> 1, createdAt |-> i]
                  : i \in Ids}
    /\ nextId = MaxId + 1
    /\ UserModel = {}
    /\ Order = {}
    /\ clock = Now
    /\ Quiet
    /\ \E S \in SUBSET (Keys \cup {OtherKey}) : nodeCache = [k \in S |-> TextOf(k)]

\* request p calls invalidateCache(request) and is done
InvalidationRequested(p) ==
    \E request \in InvalidationRequests :
        /\ Enter(p, "invalidateCache", rid[p])
        /\ Invalidate(request)
        /\ Goto(p, "done", {request}, res[p],
                <<Invalidated(InvalidationKeys(request))>>)
        /\ StoreUnchanged

NextInvalidate ==
    \E p \in Procs :
        \/ InvalidationRequested(p)
        \/ Finish(p)

SpecInvalidate == InitInvalidate /\ [][NextInvalidate]_vars

\* the step in which request p calls invalidateCache(request)
Requests(p, request) ==
    /\ pc[p] = "idle"
    /\ pc'[p] = "done"
    /\ kind'[p] = "invalidateCache"
    /\ loc'[p] = {request}

\* key is in both caches with one text, or in neither
Kept(key) ==
    /\ has(nodeCache', key) <=> has(nodeCache, key)
    /\ has(nodeCache, key) => get(nodeCache', key) = get(nodeCache, key)

Texts == {Stringify(Null), Stringify(EmptyObject), Garbage}

C18_LastMonthIsWhole ==
    [][\A p \in Procs :
        Sends(p) =>
            LET r == loc[p].results
                before == MonthOf(loc[p].today) - 1
            IN  /\ \A u \in UserModel :
                    MonthOf(u.createdAt) = before => u \in r["lastMonthUsers"]
                /\ \A o \in Order :
                    MonthOf(o.createdAt) = before => o \in r["lastMonthOrders"]
                /\ r["thisMonthUsers"] \cap r["lastMonthUsers"] = {}
                /\ r["thisMonthOrders"] \cap r["lastMonthOrders"] = {}
                /\ r["thisMonthProducts"] \cap r["lastMonthProducts"] = {}]_vars

\* C19: in every snapshot the dashboard computes, a product, a user or an
\* order created exactly at the first instant of this month is among the
\* this-month results of its kind, and one created exactly at the first
\* instant of the month before is among the last-month results of its kind.
C19_InclusiveStart ==
    [][\A p \in Procs :
        Sends(p) =>
            LET r == loc[p].results
                this == thisMonth(loc[p].today)
                last == lastMonth(loc[p].today)
            IN  /\ \A d \in Product :
                    /\ d.createdAt = this.start => d \in r["thisMonthProducts"]
                    /\ d.createdAt = last.start => d \in r["lastMonthProducts"]
                /\ \A d \in UserModel :
                    /\ d.createdAt = this.start => d \in r["thisMonthUsers"]
                    /\ d.createdAt = last.start => d \in r["lastMonthUsers"]
                /\ \A d \in Order :
                    /\ d.createdAt = this.start => d \in r["thisMonthOrders"]
                    /\ d.createdAt = last.start => d \in r["lastMonthOrders"]]_vars

\* C20: while any of its nine reads is pending a dashboard request has sent
\* nothing; each result it holds is what the store answered to that read of
\* this request; and the snapshot it sends is the one built from its nine
\* results.
C20_JoinOfNineReads ==
    /\ [](\A p \in Procs : pc[p] = "all" => res[p] = NoResponse)
    /\ [][\A p \in Procs :
            /\ (pc[p] = "all" /\ pc'[p] = "all" /\ loc'[p] # loc[p])
               => \E q \in StatsQueries \ DOMAIN loc[p].results :
                    /\ DOMAIN loc'[p].results = DOMAIN loc[p].results \cup {q}
                    /\ loc'[p].results[q] = StatsAnswer(q, loc[p].today)
                    /\ \A n \in DOMAIN loc[p].results :
                        loc'[p].results[n] = loc[p].results[n]
                    /\ loc'[p].today = loc[p].today
                    /\ res'[p] = NoResponse
            /\ Sends(p)
               => /\ DOMAIN loc[p].results = StatsQueries
                  /\ res'[p] = Json(200, Stringify(Stats(loc[p].results)))]_vars

\* C20 witness: a user signed up between two reads of a dashboard request, and
\* the snapshot sent has both answers: no user this month, one user in all
C20_Witness ==
    \E p \in Procs :
        /\ Sent(p)
        /\ Cardinality(UserModel) = 1
        /\ Parse(res[p].payload).count.user = 1
        /\ Parse(res[p].payload).percentage.user = 0

ProductChanges == {"handleUpdateSingleProduct", "handleDeleteProduct"}

\* C21: an update or delete request that ended with an error (404 for an id
\* the store does not have, 400 for a body field that is not allowed, 404 for
\* a write that returned no document, or a write that failed) has called
\* invalidateCache not once, and no step of an update or delete request but
\* the invalidation after a write that returned a document changes the cache.
C21_FailedChangeKeepsCache ==
    /\ [](\A p \in Procs :
            (kind[p] \in ProductChanges /\ pc[p] = "done" /\ res[p].via = "next")
            => Ops(p) \cap {"invalidate", "set"} = {})
    /\ [][\A p \in Procs :
            (/\ kind'[p] \in ProductChanges
             /\ pc'[p] # pc[p]
             /\ ~(InWindow(p) /\ pc'[p] = "done"))
            => nodeCache' = nodeCache]_vars

\* C21 witness: an update was refused for its body and a delete found no
\* product, and the entries of both ids are still cached
C21_Witness ==
    \E p, q \in Procs :
        /\ kind[p] = "handleUpdateSingleProduct"
        /\ pc[p] = "done"
        /\ res[p] = NextError(400)
        /\ has(nodeCache, ProductKey(rid[p]))
        /\ kind[q] = "handleDeleteProduct"
        /\ pc[q] = "done"
        /\ res[q] = NextError(404)
        /\ has(nodeCache, ProductKey(rid[q]))
        /\ rid[p] # rid[q]

\* SpecCatalog: single-product reads against creates, updates and deletes.
\* The store has handed out all ids but the last and their products are gone.
NextCatalog ==
    \E p \in Procs :
        \/ handleGetSingleProduct(p)
        \/ handleGetSingleProductFound(p)
        \/ handleNewProduct(p)
        \/ handleNewProductCreated(p)
        \/ handleUpdateSingleProduct(p)
        \/ handleUpdateSingleProductFound(p)
        \/ handleUpdateSingleProductUpdated(p)
        \/ handleDeleteProduct(p)
        \/ handleDeleteProductFound(p)
        \/ handleDeleteProductDeleted(p)
        \/ Find(p)
        \/ Create(p)
        \/ FindByIdAndUpdate(p)
        \/ FindByIdAndDelete(p)
        \/ Finish(p)

SpecCatalog == Init /\ [][NextCatalog]_vars

\* request p answers its read of the store in this step
ReadMissAnswers(p) ==
    /\ kind[p] = "handleGetSingleProduct"
    /\ pc[p] = "found"
    /\ pc'[p] = "done"

\* request p, an update or a delete of product id, invalidates in this step
ChangeInvalidates(p, id) ==
    /\ kind[p] \in ProductChanges
    /\ pc[p] \in {"updated", "deleted"}
    /\ pc'[p] = "done"
    /\ loc[p] # {}
    /\ rid[p] = id

\* request p, a creation, invalidates in this step
CreationInvalidates(p) ==
    /\ kind[p] = "handleNewProduct"
    /\ pc[p] = "created"
    /\ pc'[p] = "done"

====
